---- MODULE Spec2Model ----
(***************************************************************************)
(* A model of tj-scraper's discovery engine: the cache store               *)
(* (tj_scraper/cache.py), the concurrent download orchestration            *)
(* (tj_scraper/download.py) and the process numbers                        *)
(* (tj_scraper/process.py).                                                *)
(*                                                                         *)
(* These specifications share the variables:                               *)
(*   SpecCache  the cache API driven directly (save_to_cache with any item *)
(*              and state, filter_cached with any ascending list,          *)
(*              restore_json_for_ids with any list of numbers);            *)
(*   Spec       runs of discover_with_json_api against a court, one probe  *)
(*              turn per step;                                             *)
(*   SpecBatch  one call of discover_with_json_api, one step per stretch   *)
(*              of a coroutine between two awaits;                         *)
(*   SpecClassify  classify called on one response body;                   *)
(*   SpecProcess   advance, make_cnj_code, to_number, the check digits and *)
(*              make_intervals (tj_scraper/webapp.py) called on one input, *)
(*              and one enumeration of candidates;                         *)
(*   SpecAllFrom   one generator of all_from, one yield per step           *)
(*              (SpecAllFromFair: consumed for as long as it yields);      *)
(*   SpecFetch  one call of fetch_process for the court "rj", one request  *)
(*              per step, and the classify_and_cache of what it returned.  *)
(***************************************************************************)
EXTENDS Integers, Sequences, FiniteSets

\* ------------------------------------------------------------------ bounds

\* Sequential numbers (NNNNNNN) the model ranges over: 1..NumSeqs.
NumSeqs == 3
\* Source units of the modelled court: codes 1..NumUnits, ascending.
NumUnits == 2
\* Rows the Processos table may hold when save_to_cache is driven directly.
MaxRows == 2
\* Longest list of sequential numbers handed to filter_cached directly.
MaxReq == 3
\* Longest list of numbers handed to restore_json_for_ids directly.
MaxIds == 2
\* Calls of discover_with_json_api in one behaviour whose probes run one at
\* a time (batch_size 1); a behaviour with concurrent probes has one fewer.
MaxRuns == 3
\* Probes per batch (the code's chunks(requests, 1000), scaled down).
ChunkSize == 2
\* Responses of one behaviour that are a captcha error or of an unknown shape
\* or an unsupported record.
MaxFaults == 1

\* --------------------------------------------------------------- constants

\* JudicialSegment.JEDFT, rendered as the S digit of a CNJ number.
JEDFT == 8
\* TJRJ's court code.
TRCode == 19
\* The year of the combinations a run asks for (the mock court's year).
RunYear == 2021

Years == {RunYear, RunYear + 1}
Seqs == 1..NumSeqs
Units == 1..NumUnits

\* CacheState
CACHED == "CACHED"
INVALID == "INVALID"
NOT_CACHED == "NOT_CACHED"

\* Absent txtAssunto (Python's None from item.get("txtAssunto")).
None == "None"
\* The subjects a court process may carry; the caller filter looks for "furto".
Subjects == {"furto", "outro"}

\* ------------------------------------------------------------ number codec

\* CNJProcessNumber: the fields of a process number, check digits not stored.
CNJProcessNumber(seq, year, segment, tr_code, source_unit) ==
    [sequential_number |-> seq, year |-> year, segment |-> segment,
     tr_code |-> tr_code, source_unit |-> source_unit]

Pow10(w) == CASE w = 1 -> 10 [] w = 2 -> 100 [] w = 4 -> 10000 [] w = 7 -> 10000000

\* Appends a field of `width` decimal digits to a number known modulo 97.
AppendMod97(acc, field, width) == (acc * Pow10(width) + field) % 97

\* The remainder itself, not its complement to 98.
CheckDigits_remainder(n) ==
    LET a == AppendMod97(0, n.sequential_number, 7)
        b == AppendMod97(a, n.year, 4)
        c == AppendMod97(b, n.segment, 1)
        d == AppendMod97(c, n.tr_code, 2)
        e == AppendMod97(d, n.source_unit, 4)
    IN  (e * 100) % 97

\* 98 - (M*100 mod 97), M the decimal concatenation NNNNNNN YYYY S CC UUUU.
CheckDigits(n) ==
    LET a == AppendMod97(0, n.sequential_number, 7)
        b == AppendMod97(a, n.year, 4)
        c == AppendMod97(b, n.segment, 1)
        d == AppendMod97(c, n.tr_code, 2)
        e == AppendMod97(d, n.source_unit, 4)
    IN  98 - ((e * 100) % 97)

\* The canonical string NNNNNNN-DD.YYYY.S.CC.UUUU, as its six digit groups.
make_cnj_number_str(n) ==
    <<n.sequential_number, CheckDigits(n), n.year, n.segment, n.tr_code,
      n.source_unit>>

\* Parses the digit groups; the DD group is read and discarded.
to_cnj_number(s) == CNJProcessNumber(s[1], s[3], s[4], s[5], s[6])

\* --------------------------------------------------------------- cache store

\* A process JSON, reduced to the fields the engine reads: the id field
\* (REAL_ID_FIELD) and the subject.
ProcessJSON(id, subject) == [real_id |-> id, txtAssunto |-> subject]

get_process_id(item) == item.real_id

\* One row of table Processos(id, cache_state, subject, json).
DBProcess(item, state) ==
    [id |-> get_process_id(item), cache_state |-> state,
     subject |-> item.txtAssunto, json |-> item]

IdsIn(cache) == {cache[i].id : i \in 1..Len(cache)}

\* "insert or replace": a later save overwrites the stored row.
save_to_cache_replace(cache, item, state) ==
    IF get_process_id(item) \in IdsIn(cache)
    THEN [i \in 1..Len(cache) |->
            IF cache[i].id = get_process_id(item)
            THEN DBProcess(item, state) ELSE cache[i]]
    ELSE Append(cache, DBProcess(item, state))

\* insert or ignore into Processos(id, cache_state, subject, json)
save_to_cache(cache, item, state) ==
    IF get_process_id(item) \in IdsIn(cache)
    THEN cache
    ELSE Append(cache, DBProcess(item, state))

\* select id, cache_state from Processos: the rows in rowid order.
load_metadata(cache) ==
    [i \in 1..Len(cache) |-> <<cache[i].id, cache[i].cache_state>>]

\* create_database(path): the file exists, with an empty table Processos.
create_database == TRUE

\* The file is read as it is found.
load_metadata_file_as_found(exists) == exists

\* The file at cache_path after load_metadata: `if not cache_path.exists():
\* create_database(cache_path)`.
load_metadata_file(exists) == IF ~exists THEN create_database ELSE exists

\* The file at cache_path after save_to_cache: created where missing.
save_to_cache_file(exists) == IF ~exists THEN create_database ELSE exists

Filtered(not_cached, cached, invalid) ==
    [not_cached |-> not_cached, cached |-> cached, invalid |-> invalid]

SeqRange(s) == {s[i] : i \in 1..Len(s)}

\* The rows of the metadata that the dict comprehension of filter_cached
\* keeps: those of a requested sequential number and of the given year.
MatchingRows(sequential_numbers, year, states) ==
    {i \in 1..Len(states) :
        /\ to_cnj_number(states[i][1]).sequential_number
              \in SeqRange(sequential_numbers)
        /\ to_cnj_number(states[i][1]).year = year}

\* Every matching row is classified, instead of one row per sequential number.
filter_cached_every_row(sequential_numbers, year, cache) ==
    LET states == load_metadata(cache)
        rows == MatchingRows(sequential_numbers, year, states)
        have == {to_cnj_number(states[i][1]).sequential_number : i \in rows}
    IN  Filtered(
          SeqRange(sequential_numbers) \ have,
          {to_cnj_number(states[i][1]) : i \in {j \in rows : states[j][2] = CACHED}},
          {to_cnj_number(states[i][1]) : i \in {j \in rows : states[j][2] = INVALID}})

\* filter_cached: cache_states maps a sequential number to the (number, state)
\* of the LAST matching row (a dict comprehension keeps the last value of a
\* key); each requested number is then matched on that state.
filter_cached(sequential_numbers, year, cache) ==
    LET states == load_metadata(cache)
        rows == MatchingRows(sequential_numbers, year, states)
        keys == {to_cnj_number(states[i][1]).sequential_number : i \in rows}
        last(k) == CHOOSE i \in rows :
                      /\ to_cnj_number(states[i][1]).sequential_number = k
                      /\ \A j \in rows :
                            to_cnj_number(states[j][1]).sequential_number = k
                               => j <= i
        cache_states == [k \in keys |->
                           <<to_cnj_number(states[last(k)][1]), states[last(k)][2]>>]
        state_of(k) == IF k \in keys THEN cache_states[k][2] ELSE NOT_CACHED
        req == SeqRange(sequential_numbers)
    IN  Filtered(
          {k \in req : state_of(k) = NOT_CACHED},
          {cache_states[k][1] : k \in {x \in req : state_of(x) = CACHED}},
          {cache_states[k][1] : k \in {x \in req : state_of(x) = INVALID}})

\* has_words_in_subject: a word of the list is in the subject.
has_words_in_subject(data, words) == data.txtAssunto \in words

\* processes_by_subject.filter_function
filter_function(item, words) ==
    IF words # {} THEN has_words_in_subject(item, words) ELSE TRUE

\* Every row whose id is in the list is restored, whatever the predicate.
restore_json_for_ids_unfiltered(cache, ids, words) ==
    LET keep(row) == to_cnj_number(row.id) \in ids
        kept == SelectSeq(cache, keep)
    IN  [i \in 1..Len(kept) |-> kept[i].json]

\* restore_json_for_ids: select json from Processos where is_in_list(id) and
\* custom_filter(id, cache_state, subject, json), in rowid order.
restore_json_for_ids(cache, ids, words) ==
    LET keep(row) == /\ to_cnj_number(row.id) \in ids
                     /\ filter_function(row.json, words)
        kept == SelectSeq(cache, keep)
    IN  [i \in 1..Len(kept) |-> kept[i].json]

\* ---------------------------------------------------------------- download

\* FetchFailReason, and the two other ways a fetch ends.
CAPTCHA == "CAPTCHA"
FILTERED == "FILTERED"
NOT_FOUND == "NOT_FOUND"
UNSUPPORTED == "UNSUPPORTED"
PROCESS == "PROCESS"
UnknownTJResponse == "UnknownTJResponse"

NoJSON == ProcessJSON(<<>>, None)

\* FetchResult = FetchFailReason | ProcessJSON (or the exception raised).
FetchResult(kind, json) == [kind |-> kind, json |-> json]
Fail(reason) == FetchResult(reason, NoJSON)

\* A decoded response of the court, by the shape classify matches on.
TJResponse(shape, json) == [shape |-> shape, json |-> json]

\* The values of a key of a JSON object are written as JSON text ("412",
\* "'abc'"); Absent is the key that the object does not have.
Absent == "absent"

\* The message strings classify compares with (without their diacritics).
NotFoundText == "O processo informado nao foi encontrado."
InvalidText == "Numero do processo invalido."
RecaptchaText == "'Erro de validacao do Recaptcha. Tente novamente.'"

\* An element of a JSON array, or a JSON object: a string, or an object
\* with the keys classify looks at.
Text(s) ==
    [kind |-> "str", text |-> s, status |-> Absent, mensagem |-> Absent,
     urlExterna |-> Absent, tipoProcesso |-> Absent]
Object(status, mensagem, urlExterna, tipoProcesso) ==
    [kind |-> "dict", text |-> "", status |-> status, mensagem |-> mensagem,
     urlExterna |-> urlExterna, tipoProcesso |-> tipoProcesso]

\* A decoded JSON body: an array of elements, or one object (items has it).
ArrayBody(items) == [is_list |-> TRUE, items |-> items]
ObjectBody(item) == [is_list |-> FALSE, items |-> <<item>>]

\* item.get(key, default)
Get(value, default) == IF value = Absent THEN default ELSE value

\* `case dict() as item:` without its guard: every object left is a process.
ShapeOf_any_object_is_process(body) ==
    LET items == body.items
    IN  IF body.is_list
        THEN CASE items = <<Text(NotFoundText)>> -> "not_found_message"
               [] items = <<Text(InvalidText)>> -> "invalid_message"
               [] items = <<>> -> "other"
               [] items # <<>> /\ items[1].kind = "str" -> "message"
               [] OTHER -> "process"
        ELSE CASE items[1].status = "412" /\ items[1].mensagem = RecaptchaText
                    -> "recaptcha_error"
               [] items[1].urlExterna # Absent \/ items[1].tipoProcesso = "2"
                    -> "external_or_2nd_instance"
               [] OTHER -> "process"

\* The case of classify's match statement that a decoded body takes, in the
\* order of the cases: the two one-message arrays, the captcha object, an
\* object with urlExterna or tipoProcesso 2, any other array (whose first
\* element is asserted not to be a string and returned; an empty array
\* leaves the match), an object whose tipoProcesso, 1 by default, is 1.
ShapeOf(body) ==
    LET items == body.items
    IN  IF body.is_list
        THEN CASE items = <<Text(NotFoundText)>> -> "not_found_message"
               [] items = <<Text(InvalidText)>> -> "invalid_message"
               [] items = <<>> -> "other"
               [] items # <<>> /\ items[1].kind = "str" -> "message"
               [] OTHER -> "process"
        ELSE CASE items[1].status = "412" /\ items[1].mensagem = RecaptchaText
                    -> "recaptcha_error"
               [] items[1].urlExterna # Absent \/ items[1].tipoProcesso = "2"
                    -> "external_or_2nd_instance"
               [] Get(items[1].tipoProcesso, "1") = "1" -> "process"
               [] OTHER -> "other"

\* The body as classify takes it: its shape and the record it would return.
Decode(body) ==
    TJResponse(ShapeOf(body),
               IF body.items # <<>> THEN body.items[1] ELSE NoJSON)

AssertionError == "AssertionError"

classify(response) ==
    CASE response.shape = "not_found_message" -> Fail(NOT_FOUND)
      [] response.shape = "invalid_message" -> Fail(INVALID)
      [] response.shape = "recaptcha_error" -> Fail(CAPTCHA)
      [] response.shape = "external_or_2nd_instance" -> Fail(UNSUPPORTED)
      [] response.shape = "process" -> FetchResult(PROCESS, response.json)
      [] response.shape = "message" -> Fail(AssertionError)
      [] OTHER -> Fail(UnknownTJResponse)

\* fetch_process for TJ "rj": the CNJ endpoint first; a failure there is the
\* result, a process there leads to the main endpoint, whose answer is the
\* result.
fetch_process(cnj_response, main_response) ==
    LET fetch_result == classify(cnj_response)
    IN  IF fetch_result.kind # PROCESS
        THEN fetch_result
        ELSE classify(main_response)

\* classify_and_cache calls save_to_cache for this result of the fetch.
Saves(fetch_result) == fetch_result.kind \in {INVALID, NOT_FOUND, PROCESS}

\* The outcome of classify_and_cache: the cache after it and what it returns.
Outcome(cache, fetch_result) == [cache |-> cache, fetch_result |-> fetch_result]

InvalidItem(cnj_number) == ProcessJSON(make_cnj_number_str(cnj_number), None)

\* A captcha answer is cached as INVALID, like a not-found one.
classify_and_cache_captcha_cached(fetch_result, cnj_number, cache, words) ==
    CASE fetch_result.kind \in {INVALID, NOT_FOUND, CAPTCHA} ->
           Outcome(save_to_cache(cache, InvalidItem(cnj_number), INVALID),
                   fetch_result)
      [] fetch_result.kind = UNSUPPORTED -> Outcome(cache, fetch_result)
      [] OTHER ->
           Outcome(save_to_cache(cache, fetch_result.json, CACHED),
                   IF ~filter_function(fetch_result.json, words)
                   THEN Fail(FILTERED) ELSE fetch_result)

\* The caller filter is not applied to a fetched process.
classify_and_cache_unfiltered(fetch_result, cnj_number, cache, words) ==
    CASE fetch_result.kind \in {INVALID, NOT_FOUND} ->
           Outcome(save_to_cache(cache, InvalidItem(cnj_number), INVALID),
                   fetch_result)
      [] fetch_result.kind \in {CAPTCHA, UNSUPPORTED} -> Outcome(cache, fetch_result)
      [] OTHER ->
           Outcome(save_to_cache(cache, fetch_result.json, CACHED), fetch_result)

\* A not-found answer is not cached.
classify_and_cache_not_found_uncached(fetch_result, cnj_number, cache, words) ==
    CASE fetch_result.kind = INVALID ->
           Outcome(save_to_cache(cache, InvalidItem(cnj_number), INVALID),
                   fetch_result)
      [] fetch_result.kind \in {NOT_FOUND, CAPTCHA, UNSUPPORTED} ->
           Outcome(cache, fetch_result)
      [] OTHER ->
           Outcome(save_to_cache(cache, fetch_result.json, CACHED),
                   IF ~filter_function(fetch_result.json, words)
                   THEN Fail(FILTERED) ELSE fetch_result)

\* The caller filter is applied first, and a rejected process is not saved.
classify_and_cache_filter_first(fetch_result, cnj_number, cache, words) ==
    CASE fetch_result.kind \in {INVALID, NOT_FOUND} ->
           Outcome(save_to_cache(cache, InvalidItem(cnj_number), INVALID),
                   fetch_result)
      [] fetch_result.kind \in {CAPTCHA, UNSUPPORTED} -> Outcome(cache, fetch_result)
      [] OTHER ->
           IF ~filter_function(fetch_result.json, words)
           THEN Outcome(cache, Fail(FILTERED))
           ELSE Outcome(save_to_cache(cache, fetch_result.json, CACHED), fetch_result)

\* classify_and_cache, for a fetch_result that is not an exception.
classify_and_cache(fetch_result, cnj_number, cache, words) ==
    CASE fetch_result.kind = INVALID ->
           Outcome(save_to_cache(cache, InvalidItem(cnj_number), INVALID),
                   fetch_result)
      [] fetch_result.kind = NOT_FOUND ->
           Outcome(save_to_cache(cache, InvalidItem(cnj_number), INVALID),
                   fetch_result)
      [] fetch_result.kind = CAPTCHA -> Outcome(cache, fetch_result)
      [] fetch_result.kind = UNSUPPORTED -> Outcome(cache, fetch_result)
      [] OTHER ->
           Outcome(save_to_cache(cache, fetch_result.json, CACHED),
                   IF ~filter_function(fetch_result.json, words)
                   THEN Fail(FILTERED) ELSE fetch_result)

\* The loop ends only after a process the filter rejects.
Breaks_on_filtered_only(fetch_result) == fetch_result.kind = FILTERED

\* The loop of try_combinations ends after this result: `break`.
Breaks(fetch_result) == fetch_result.kind \in {PROCESS, FILTERED}

\* The dict results, last of the batch first.
summarize_batch_results_reversed(batch_results) ==
    LET is_process(r) == r.kind = PROCESS
        processes == SelectSeq(batch_results, is_process)
    IN  [i \in 1..Len(processes) |-> processes[Len(processes) + 1 - i].json]

\* summarize_batch_results(...).processes: the dict results, in batch order.
summarize_batch_results(batch_results) ==
    LET is_process(r) == r.kind = PROCESS
        processes == SelectSeq(batch_results, is_process)
    IN  [i \in 1..Len(processes) |-> processes[i].json]

\* write_to_sink: appends the items to the JSON-lines file.
write_to_sink(items, sink) == sink \o items

\* -------------------------------------------------------------------- state

VARIABLES
    cache,       \* table Processos: its rows in rowid (insertion) order
    sink,        \* the JSON-lines sink file: its records in file order
    query,       \* the arguments of the last filter_cached call
    filtered,    \* the Filtered that call returned
    court,       \* the court's processes: sequential number -> unit, subject
    run,         \* discover_with_json_api calls started so far
    pc,          \* "idle" | "running" | "done" | "failed" | "file_not_found"
    force_fetch, \* the current call's force_fetch
    words,       \* the words the current call's filter_function looks for
    batch_size,  \* the calls' batch_size
    todo,        \* not_cached_numbers of the current call
    batch_no,    \* the batch being awaited: chunk batch_no of todo
    semaphore,   \* free permits of discover_processes' semaphore
    probe,       \* per sequential number, its try_combinations coroutine
    hit_captcha, \* history: numbers whose probe got a captcha in this call
    sink_start,  \* history: length of the sink when this call started
    prev,        \* history: how the previous call went
    faults,      \* history: captcha, unsupported and unknown responses so far
    resaved,     \* history: a save_to_cache met a row with its id, other content
    restored,    \* the last restore_json_for_ids call and what it returned
    cache_exists,\* the file at cache_path exists
    call         \* a function of process.py or classify called on its own

vars == <<cache, sink, query, filtered, court, run, pc, force_fetch, words,
          batch_size, todo, batch_no, semaphore, probe, hit_captcha, sink_start,
          prev, faults, resaved, restored, cache_exists, call>>

\* What the cache API alone leaves as it is.
run_vars == <<sink, court, run, pc, force_fetch, words, batch_size, todo,
              batch_no, semaphore, probe, hit_captcha, sink_start, prev, faults,
              call>>

\* The largest batch_size a call is given (the default is 100): the
\* concurrent probes the semaphore admits are 1..BatchSize.
BatchSize == 2

\* The words processes_by_subject filters by in the first call, and the
\* lists of words a later call may filter by.
Words == {"furto"}
WordLists == {Words, {"outro"}}

NoProcess == [unit |-> 0, subject |-> None]
Courts == [Seqs -> {NoProcess} \cup [unit : Units, subject : Subjects]]

\* The candidate number of sequential number s at the idx-th source unit.
Guess(s, idx) == CNJProcessNumber(s, RunYear, JEDFT, TRCode, idx)

\* The JSON the court holds for sequential number s.
CourtJSON(s) ==
    ProcessJSON(make_cnj_number_str(Guess(s, court[s].unit)), court[s].subject)

\* What the court may answer to a request for candidate (s, unit idx): the
\* process where it is and a not-found or invalid message where it is not;
\* or else a captcha error or a response of a shape the client does not
\* know, or, where the court's process is not, a record the client does not
\* support (external, or of the 2nd instance).
Truthful(s, idx) ==
    IF court[s].unit = idx
    THEN {TJResponse("process", CourtJSON(s))}
    ELSE {TJResponse("not_found_message", NoJSON),
          TJResponse("invalid_message", NoJSON)}

Faulty ==
    {TJResponse(shape, NoJSON) :
        shape \in {"external_or_2nd_instance", "recaptcha_error", "other"}}

Responses(s, idx) ==
    Truthful(s, idx)
    \cup (IF faults < MaxFaults
          THEN {r \in Faulty : court[s].unit = idx
                                  => r.shape # "external_or_2nd_instance"}
          ELSE {})

\* The results fetch_process may give for candidate (s, unit idx), each with
\* the number of faulty responses it took.
Fetches(s, idx) ==
    {[fetch_result |-> fetch_process(r[1], r[2]),
      faulty |-> IF r[1] \in Faulty
                    \/ (classify(r[1]).kind = PROCESS /\ r[2] \in Faulty)
                 THEN 1 ELSE 0] :
        r \in Responses(s, idx) \X Responses(s, idx)}

IdleProbe == [st |-> "idle", idx |-> 0, fetch_result |-> Fail("NONE")]
NoPrev == [valid |-> FALSE, ok |-> FALSE, force_fetch |-> FALSE, words |-> Words,
           resolved |-> FALSE, emitted |-> {}, unresolved |-> {},
           filtered_out |-> {}]

NoRestore == [called |-> FALSE, ids |-> {}, words |-> {}, result |-> <<>>,
              cache |-> <<>>, raised |-> FALSE]

\* No function is called on its own.
NoCall == [op |-> "none"]

Min(a, b) == IF a < b THEN a ELSE b

\* Every chunk is the whole list.
chunks_whole(list, n, k) == list

\* chunks(requests, n): the k-th chunk of the list.
chunks(list, n, k) == SubSeq(list, (k - 1) * n + 1, Min(k * n, Len(list)))

\* list(set) of small integers: ascending.
RECURSIVE SortedList(_)
SortedList(S) ==
    IF S = {} THEN <<>>
    ELSE LET m == CHOOSE x \in S : \A y \in S : x <= y
         IN  <<m>> \o SortedList(S \ {m})

\* range(sequence_start, sequence_end + 1)
sequence == [i \in 1..NumSeqs |-> i]

\* The records this call has written to the sink.
Emitted == {sink[i] : i \in (sink_start + 1)..Len(sink)}

\* Every coroutine of the batch issues its first request, permit or not.
Launch_without_semaphore(probes, batch, permits) ==
    [s \in Seqs |->
       IF \E i \in 1..Len(batch) : batch[i] = s
       THEN [st |-> "fetching", idx |-> 1, fetch_result |-> Fail("NONE")]
       ELSE probes[s]]

\* gather(*batch): the coroutines of a batch start in order; each acquires
\* the semaphore and issues its first request, or waits for a permit.
Launch(probes, batch, permits) ==
    [s \in Seqs |->
       IF \E i \in 1..Len(batch) : batch[i] = s
       THEN LET i == CHOOSE j \in 1..Len(batch) : batch[j] = s
            IN  IF i <= permits
                THEN [st |-> "fetching", idx |-> 1, fetch_result |-> Fail("NONE")]
                ELSE [st |-> "pending", idx |-> 0, fetch_result |-> Fail("NONE")]
       ELSE probes[s]]

InitShared ==
    /\ cache = <<>>
    /\ sink = <<>>
    /\ query = [called |-> FALSE, sequential_numbers |-> <<>>, year |-> RunYear]
    /\ filtered = Filtered({}, {}, {})
    /\ run = 0
    /\ pc = "idle"
    /\ force_fetch = FALSE
    /\ words = Words
    /\ todo = <<>>
    /\ batch_no = 0
    /\ semaphore = BatchSize
    /\ probe = [s \in Seqs |-> IdleProbe]
    /\ hit_captcha = {}
    /\ sink_start = 0
    /\ prev = NoPrev
    /\ faults = 0
    /\ resaved = FALSE
    /\ restored = NoRestore
    /\ cache_exists = FALSE

\* ------------------------------------------------- the cache API, driven

\* The sequential numbers and source units of the rows saved directly.
CacheSeqs == {1, 2, 3}
CacheUnits == {1, 2}
CacheNumbers ==
    {CNJProcessNumber(s, y, JEDFT, TRCode, u) :
        s \in CacheSeqs, y \in Years, u \in CacheUnits}

\* The subject of the process with number n, if the court holds one.
SubjectOf(n) == IF n.source_unit = 1 THEN "furto" ELSE "outro"

\* The items saved directly: a process with its subject as CACHED, or the
\* placeholder of a number as INVALID, as classify_and_cache saves them.
CacheItems ==
    {<<ProcessJSON(make_cnj_number_str(n), SubjectOf(n)), CACHED>> : n \in CacheNumbers}
    \cup {<<InvalidItem(n), INVALID>> : n \in CacheNumbers}

\* The lists of sequential numbers filter_cached is asked about: ascending,
\* as the ranges and the sorted sets its callers pass.
RequestLists ==
    {SortedList(S) : S \in {T \in SUBSET CacheSeqs : Cardinality(T) <= MaxReq}}

NoQuery == [called |-> FALSE, sequential_numbers |-> <<>>, year |-> RunYear]

\* The lists of full numbers restore_json_for_ids is asked for, and the
\* words of the predicates it is given (no word: every record passes).
IdLists ==
    {S \in SUBSET {n \in CacheNumbers : n.year = RunYear} : Cardinality(S) <= MaxIds}
Predicates == {{}, Words}

InitCache ==
    /\ InitShared
    /\ call = NoCall
    /\ batch_size = BatchSize
    /\ court = [s \in Seqs |-> NoProcess]

\* save_to_cache(item, cache_path, state), for any item and state.
SaveToCacheCall ==
    \E args \in CacheItems :
        LET item == args[1]
            state == args[2]
            known == get_process_id(item) \in IdsIn(cache)
        IN  /\ ~query.called /\ ~restored.called
            /\ known \/ Len(cache) < MaxRows
            /\ cache' = save_to_cache(cache, item, state)
            /\ cache_exists' = save_to_cache_file(cache_exists)
            /\ resaved' = (resaved \/ (known /\ DBProcess(item, state)
                                           \notin {cache[i] : i \in 1..Len(cache)}))
            /\ UNCHANGED <<query, filtered, restored>>
            /\ UNCHANGED run_vars

\* filter_cached(sequential_numbers, year, cache_path), for any list and year.
FilterCachedCall ==
    \E sequential_numbers \in RequestLists, year \in Years :
        /\ ~query.called /\ ~restored.called
        /\ query' = [called |-> TRUE, sequential_numbers |-> sequential_numbers,
                     year |-> year]
        /\ filtered' = filter_cached(sequential_numbers, year, cache)
        /\ cache_exists' = load_metadata_file(cache_exists)
        /\ UNCHANGED <<cache, resaved, restored>>
        /\ UNCHANGED run_vars

\* The caller takes the Filtered; the next call of the API may start.
FilterCachedReturn ==
    /\ query.called
    /\ query' = NoQuery
    /\ filtered' = Filtered({}, {}, {})
    /\ UNCHANGED <<cache, resaved, restored, cache_exists>>
    /\ UNCHANGED run_vars

\* restore_json_for_ids(cache_path, ids, filter_function), for any list of
\* numbers and a predicate on the subject; the cache it was called on is
\* kept. Without a file at cache_path it raises FileNotFoundError.
RestoreCall ==
    \E ids \in IdLists, predicate \in Predicates :
        /\ ~query.called /\ ~restored.called
        /\ restored' = [called |-> TRUE, ids |-> ids, words |-> predicate,
                        result |-> IF cache_exists
                                   THEN restore_json_for_ids(cache, ids, predicate)
                                   ELSE <<>>,
                        cache |-> cache, raised |-> ~cache_exists]
        /\ UNCHANGED <<cache, query, filtered, resaved, cache_exists>>
        /\ UNCHANGED run_vars

\* The caller takes the list; the next call of the API may start.
RestoreReturn ==
    /\ restored.called
    /\ restored' = NoRestore
    /\ UNCHANGED <<cache, query, filtered, resaved, cache_exists>>
    /\ UNCHANGED run_vars

NextCache ==
    \/ SaveToCacheCall
    \/ FilterCachedCall
    \/ FilterCachedReturn
    \/ RestoreCall
    \/ RestoreReturn

SpecCache == InitCache /\ [][NextCache]_vars

\* ------------------------------------------------ discover_with_json_api

Init ==
    /\ InitShared
    /\ call = NoCall
    /\ batch_size \in 1..BatchSize
    /\ court \in Courts

\* How the call that just ended went, kept for the next call.
Ended ==
    IF pc = "idle" THEN NoPrev
    ELSE [valid |-> TRUE, ok |-> pc = "done", force_fetch |-> force_fetch,
          words |-> words,
          resolved |-> \A s \in SeqRange(todo) :
                          probe[s].fetch_result.kind
                             \in {PROCESS, FILTERED, NOT_FOUND, INVALID},
          emitted |-> Emitted,
          unresolved |-> {s \in SeqRange(todo) :
                            /\ probe[s].st = "done"
                            /\ probe[s].fetch_result.kind = CAPTCHA},
          filtered_out |-> {s \in SeqRange(todo) :
                              /\ probe[s].st = "done"
                              /\ probe[s].fetch_result.kind = FILTERED}]

\* Every requested number is probed, cached or not.
BeginBatches_everything(not_cached_numbers) ==
    LET batch == chunks(sequence, ChunkSize, 1)
    IN  /\ todo' = sequence
        /\ pc' = "running"
        /\ batch_no' = 1
        /\ semaphore' = batch_size - Min(Len(batch), batch_size)
        /\ probe' = Launch([s \in Seqs |-> IdleProbe], batch, batch_size)

\* discover_processes up to its first await: the semaphore is created and
\* the first batch gathered; with nothing to fetch the call is over.
BeginBatches(not_cached_numbers) ==
    /\ todo' = not_cached_numbers
    /\ IF not_cached_numbers = <<>>
       THEN /\ pc' = "done"
            /\ batch_no' = 0
            /\ semaphore' = batch_size
            /\ probe' = [s \in Seqs |-> IdleProbe]
       ELSE LET batch == chunks(not_cached_numbers, ChunkSize, 1)
            IN  /\ pc' = "running"
                /\ batch_no' = 1
                /\ semaphore' = batch_size - Min(Len(batch), batch_size)
                /\ probe' = Launch([s \in Seqs |-> IdleProbe], batch, batch_size)

\* discover_with_json_api(combinations, sink, cache_path, filter_function,
\* force_fetch): write_cached_to_sink unless force_fetch, then
\* discover_processes over the numbers that are not cached.
StartRun ==
    \E force \in BOOLEAN, filter_words \in (IF run = 0 THEN {Words} ELSE WordLists) :
        /\ pc \in {"idle", "done", "failed"}
        /\ words' = filter_words
        /\ run < (IF batch_size = 1 THEN MaxRuns ELSE MaxRuns - 1)
        /\ run' = run + 1
        /\ force_fetch' = force
        /\ prev' = Ended
        /\ hit_captcha' = {}
        /\ sink_start' = Len(sink)
        /\ IF force
           THEN /\ UNCHANGED <<sink, query, filtered, cache_exists>>
                /\ BeginBatches(sequence)
           ELSE LET f == filter_cached(sequence, RunYear, cache)
                    cached_items == restore_json_for_ids(cache, f.cached, filter_words)
                IN  /\ query' = [called |-> TRUE, sequential_numbers |-> sequence,
                                 year |-> RunYear]
                    /\ filtered' = f
                    /\ cache_exists' = load_metadata_file(cache_exists)
                    /\ IF load_metadata_file(cache_exists)
                       THEN /\ sink' = write_to_sink(cached_items, sink)
                            /\ BeginBatches(SortedList(f.not_cached))
                       ELSE /\ pc' = "file_not_found"
                            /\ todo' = <<>>
                            /\ batch_no' = 0
                            /\ semaphore' = batch_size
                            /\ probe' = [s \in Seqs |-> IdleProbe]
                            /\ UNCHANGED sink
        /\ UNCHANGED <<cache, court, batch_size, faults, resaved, restored, call>>

\* semaphore.release(): the first coroutine waiting for a permit gets it and
\* issues its first request; with none waiting the permit is free again.
Released(probes) ==
    LET batch == chunks(todo, ChunkSize, batch_no)
        waiting == {i \in 1..Len(batch) : probes[batch[i]].st = "pending"}
    IN  IF waiting = {}
        THEN [probes |-> probes, semaphore |-> semaphore + 1]
        ELSE LET i == CHOOSE j \in waiting : \A k \in waiting : j <= k
             IN  [probes |-> [probes EXCEPT ![batch[i]] =
                                [st |-> "fetching", idx |-> 1,
                                 fetch_result |-> Fail("NONE")]],
                  semaphore |-> semaphore]

\* One turn of the loop of try_combinations: the response to the request in
\* flight arrives; it is classified and cached, and the probe breaks, goes
\* on to the next guess or ends with the last one.
ProbeStep(s) ==
    /\ pc = "running"
    /\ probe[s].st = "fetching"
    /\ \E fetch \in Fetches(s, probe[s].idx) :
        LET fetch_result == fetch.fetch_result
            out == classify_and_cache(fetch_result,
                                      Guess(s, probe[s].idx), cache, words)
            over == Breaks(out.fetch_result) \/ probe[s].idx = NumUnits
            ended == [probe EXCEPT ![s] = [st |-> "done", idx |-> probe[s].idx,
                                           fetch_result |-> out.fetch_result]]
        IN  /\ fetch_result.kind # UnknownTJResponse
            /\ cache' = out.cache
            /\ cache_exists' = IF Saves(fetch_result)
                               THEN save_to_cache_file(cache_exists)
                               ELSE cache_exists
            /\ faults' = faults + fetch.faulty
            /\ hit_captcha' = IF fetch_result.kind = CAPTCHA
                              THEN hit_captcha \cup {s} ELSE hit_captcha
            /\ IF over
               THEN /\ probe' = Released(ended).probes
                    /\ semaphore' = Released(ended).semaphore
               ELSE /\ probe' = [probe EXCEPT ![s] =
                                   [st |-> "fetching", idx |-> probe[s].idx + 1,
                                    fetch_result |-> out.fetch_result]]
                    /\ UNCHANGED semaphore
    /\ UNCHANGED <<sink, query, filtered, court, run, pc, force_fetch, words,
                   batch_size, todo, batch_no, sink_start, prev, resaved, restored,
                   call>>

\* classify raises UnknownTJResponse inside fetch_process: the coroutine
\* ends with the exception; ensure_released never reaches its release.
ProbeRaise(s) ==
    /\ pc = "running"
    /\ probe[s].st = "fetching"
    /\ \E fetch \in Fetches(s, probe[s].idx) :
        /\ fetch.fetch_result.kind = UnknownTJResponse
        /\ faults' = faults + fetch.faulty
        /\ probe' = [probe EXCEPT ![s] = [st |-> "raised", idx |-> probe[s].idx,
                                          fetch_result |-> fetch.fetch_result]]
    /\ UNCHANGED <<cache, sink, query, filtered, court, run, pc, force_fetch,
                   words, batch_size, todo, batch_no, semaphore, hit_captcha,
                   sink_start, prev, resaved, restored, cache_exists, call>>

\* run_batch returns: every coroutine of the batch has ended normally. The
\* batch is summarized and written to the sink, and the next batch is
\* gathered; after the last one discover_processes returns.
FinishBatch ==
    LET batch == chunks(todo, ChunkSize, batch_no)
        batch_results == [i \in 1..Len(batch) |-> probe[batch[i]].fetch_result]
    IN  /\ pc = "running"
        /\ \A i \in 1..Len(batch) : probe[batch[i]].st = "done"
        /\ sink' = write_to_sink(summarize_batch_results(batch_results), sink)
        /\ IF batch_no * ChunkSize < Len(todo)
           THEN LET next == chunks(todo, ChunkSize, batch_no + 1)
                IN  /\ batch_no' = batch_no + 1
                    /\ probe' = Launch(probe, next, semaphore)
                    /\ semaphore' = semaphore - Min(Len(next), semaphore)
                    /\ UNCHANGED pc
           ELSE /\ pc' = "done"
                /\ UNCHANGED <<batch_no, probe, semaphore>>
        /\ UNCHANGED <<cache, query, filtered, court, run, force_fetch, words,
                       batch_size, todo, hit_captcha, sink_start, prev, faults,
                       resaved, restored, cache_exists, call>>

\* gather re-raises the exception of a coroutine: run_batch, discover_processes
\* and asyncio.run raise it, asyncio.run cancelling the coroutines still
\* running. Until the main coroutine is resumed the others may go on.
Abort ==
    /\ pc = "running"
    /\ \E s \in Seqs : probe[s].st = "raised"
    /\ pc' = "failed"
    /\ probe' = [s \in Seqs |->
                   IF probe[s].st \in {"fetching", "pending"}
                   THEN [probe[s] EXCEPT !.st = "cancelled"] ELSE probe[s]]
    /\ UNCHANGED <<cache, sink, query, filtered, court, run, force_fetch, words,
                   batch_size, todo, batch_no, semaphore, hit_captcha, sink_start,
                   prev, faults, resaved, restored, cache_exists, call>>

Next ==
    \/ StartRun
    \/ \E s \in Seqs : ProbeStep(s)
    \/ \E s \in Seqs : ProbeRaise(s)
    \/ FinishBatch
    \/ Abort

Spec == Init /\ [][Next]_vars

\* ------------------------------------- one call, turn by turn of the loop

\* A coroutine in this state may be suspended there: everywhere, also
\* inside classify_and_cache.
Suspended_anywhere(st) == TRUE

\* A coroutine in this state is suspended at an await (or not running): the
\* loop of try_combinations awaits fetch_process only; classify_and_cache
\* and save_to_cache are plain functions, run without giving up the thread.
Suspended(st) == st # "saving"

\* The event loop runs nothing: every coroutine is suspended.
EventLoopFree == \A s \in Seqs : Suspended(probe[s].st)

\* One call is left to make, with the probes of a batch run concurrently.
InitBatch ==
    /\ InitShared
    /\ call = NoCall
    /\ court \in Courts
    /\ batch_size = BatchSize

\* The event loop resumes the probe of s with the response to its request:
\* fetch_process returns and classify_and_cache is entered.
ProbeResume(s) ==
    /\ EventLoopFree
    /\ pc = "running"
    /\ probe[s].st = "fetching"
    /\ \E fetch \in Fetches(s, probe[s].idx) :
        /\ fetch.fetch_result.kind # UnknownTJResponse
        /\ faults' = faults + fetch.faulty
        /\ hit_captcha' = IF fetch.fetch_result.kind = CAPTCHA
                          THEN hit_captcha \cup {s} ELSE hit_captcha
        /\ probe' = [probe EXCEPT ![s] = [st |-> "saving", idx |-> probe[s].idx,
                                          fetch_result |-> fetch.fetch_result]]
    /\ UNCHANGED <<cache, sink, query, filtered, court, run, pc, force_fetch,
                   words, batch_size, todo, batch_no, semaphore, sink_start, prev,
                   resaved, restored, cache_exists, call>>

\* classify_and_cache returns and the probe runs on to its next await: the
\* request for the next guess, or the end of the loop and the release.
ProbeSave(s) ==
    /\ pc = "running"
    /\ probe[s].st = "saving"
    /\ LET out == classify_and_cache(probe[s].fetch_result,
                                     Guess(s, probe[s].idx), cache, words)
           over == Breaks(out.fetch_result) \/ probe[s].idx = NumUnits
           ended == [probe EXCEPT ![s] = [st |-> "done", idx |-> probe[s].idx,
                                          fetch_result |-> out.fetch_result]]
       IN  /\ cache' = out.cache
           /\ cache_exists' = IF Saves(probe[s].fetch_result)
                              THEN save_to_cache_file(cache_exists)
                              ELSE cache_exists
           /\ IF over
              THEN /\ probe' = Released(ended).probes
                   /\ semaphore' = Released(ended).semaphore
              ELSE /\ probe' = [probe EXCEPT ![s] =
                                  [st |-> "fetching", idx |-> probe[s].idx + 1,
                                   fetch_result |-> out.fetch_result]]
                   /\ UNCHANGED semaphore
    /\ UNCHANGED <<sink, query, filtered, court, run, pc, force_fetch, words,
                   batch_size, todo, batch_no, hit_captcha, sink_start, prev,
                   faults, resaved, restored, call>>

\* The one call of the behaviour.
StartOnlyRun == run = 0 /\ StartRun

\* The event loop resumes a coroutine only when it runs no other: the
\* probe whose fetch_process raises, and the main coroutine that gather
\* raises in.
ProbeRaiseResumed(s) == EventLoopFree /\ ProbeRaise(s)
AbortResumed == EventLoopFree /\ Abort

\* The event loop runs one coroutine at a time, up to its next await.
NextBatch ==
    \/ StartOnlyRun
    \/ \E s \in Seqs : ProbeResume(s)
    \/ \E s \in Seqs : ProbeSave(s)
    \/ \E s \in Seqs : ProbeRaiseResumed(s)
    \/ FinishBatch
    \/ AbortResumed

SpecBatch == InitBatch /\ [][NextBatch]_vars

\* ------------------------------------------- process numbers (process.py)

\* ProcessNumber(number, digits, year, tr_code, source_unit)
ProcessNumber(number, digits, year, tr_code, source_unit) ==
    [number |-> number, digits |-> digits, year |-> year, tr_code |-> tr_code,
     source_unit |-> source_unit]

\* IdRange(start, end)
IdRange(start, end) == [start |-> start, end |-> end]

\* TJRJ: its code and the codes of its source units, as sorted by code
\* leaves them (code 1 is the code of two units of the list).
TJRJ ==
    [code |-> TRCode,
     source_units |-> <<
        0, 1, 1, 2, 3, 4, 5, 6, 7, 8, 9, 10, 11, 12, 13, 14, 15, 16, 17, 18,
        19, 20, 21, 22, 23, 24, 25, 26, 27, 28, 29, 30, 31, 32, 33, 34, 35,
        36, 37, 38, 39, 40, 41, 42, 43, 44, 45, 46, 47, 48, 49, 50, 51, 52,
        53, 54, 55, 56, 57, 58, 59, 60, 61, 62, 63, 64, 65, 66, 67, 68, 69,
        70, 71, 72, 73, 75, 76, 77, 78, 79, 80, 81, 82, 83, 84, 87, 202,
        203, 204, 205, 206, 207, 208, 209, 210, 211, 212, 9000 >>]

\* What a function gives: a number, None, or the exception it raises.
NoNumber == ProcessNumber(0, 0, 0, 0, 0)
Returned(number) == [kind |-> "number", number |-> number]
ReturnedNone == [kind |-> "None", number |-> NoNumber]
Raised(error) == [kind |-> error, number |-> NoNumber]

\* The characters of a string of digits.
Digit == <<"0", "1", "2", "3", "4", "5", "6", "7", "8", "9">>
DigitChars == {Digit[i] : i \in 1..10}
DigitValue(c) == CHOOSE d \in 0..9 : Digit[d + 1] = c

\* str(value): the decimal digits of a natural number.
RECURSIVE Decimal(_)
Decimal(value) ==
    IF value < 10 THEN <<Digit[value + 1]>>
    ELSE Decimal(value \div 10) \o <<Digit[(value % 10) + 1]>>

\* f"{value:0<width>}": zero-padded to at least `width` characters.
Pad(value, width) ==
    LET digits == Decimal(value)
    IN  IF Len(digits) >= width THEN digits
        ELSE [i \in 1..(width - Len(digits)) |-> "0"] \o digits

\* int(group): the value of the digits s[a..b].
RECURSIVE ToInt(_, _, _)
ToInt(s, a, b) ==
    IF a > b THEN 0 ELSE ToInt(s, a, b - 1) * 10 + DigitValue(s[b])

IsDigits(s, a, b) == \A i \in a..b : s[i] \in DigitChars

\* make_cnj_code:
\* f"{number:06}-{digits:02}.{year:04}.8.{tr_code:02}.{source_unit:04}",
\* as the sequence of its characters.
make_cnj_code(number) ==
    Pad(number.number, 6) \o <<"-">> \o Pad(number.digits, 2) \o <<".">>
    \o Pad(number.year, 4) \o <<".", "8", ".">> \o Pad(number.tr_code, 2)
    \o <<".">> \o Pad(number.source_unit, 4)

\* to_number: re.fullmatch(r"(\d{7})-(\d{2}).(\d{4}).8.(\d{2})\.(\d{4})", id);
\* the three unescaped dots match any character.
to_number(process_id) ==
    IF /\ Len(process_id) = 25
       /\ IsDigits(process_id, 1, 7) /\ process_id[8] = "-"
       /\ IsDigits(process_id, 9, 10)
       /\ IsDigits(process_id, 12, 15)
       /\ process_id[17] = "8"
       /\ IsDigits(process_id, 19, 20) /\ process_id[21] = "."
       /\ IsDigits(process_id, 22, 25)
    THEN Returned(ProcessNumber(ToInt(process_id, 1, 7), ToInt(process_id, 9, 10),
                                ToInt(process_id, 12, 15),
                                ToInt(process_id, 19, 20),
                                ToInt(process_id, 22, 25)))
    ELSE Raised("InvalidProcessNumber")

\* list.index(x): the first position of x (from 1), 0 where x is not in it.
Index(list, x) ==
    IF \E i \in 1..Len(list) : list[i] = x
    THEN CHOOSE i \in 1..Len(list) :
            list[i] = x /\ \A j \in 1..(i - 1) : list[j] # x
    ELSE 0

\* next_source_unit: the unit after the first one with the number's code;
\* index raises ValueError for a code that is not in the list, and the
\* subscript past the end raises IndexError, which `except KeyError` lets
\* through.
next_source_unit(number, tj) ==
    LET current_unit_index == Index(tj.source_units, number.source_unit)
    IN  IF current_unit_index = 0 THEN Raised("ValueError")
        ELSE IF current_unit_index + 1 > Len(tj.source_units)
        THEN Raised("IndexError")
        ELSE Returned([number EXCEPT
                         !.source_unit = tj.source_units[current_unit_index + 1]])

next_digit(number) ==
    IF number.digits + 1 >= 100 THEN ReturnedNone
    ELSE Returned([number EXCEPT !.digits = number.digits + 1])

next_number(number) ==
    IF number.number + 1 >= 1000000 THEN ReturnedNone
    ELSE Returned([number EXCEPT !.number = number.number + 1])

\* advance: the steps next_digit, next_source_unit, next_number in turn,
\* the first that gives a number gives the result; after a step that gives
\* None the field is reset. reset_for("units") names a field ProcessNumber
\* does not have: it raises TypeError.
advance(number, tj) ==
    LET by_digit == next_digit(number)
        reset_digits == [number EXCEPT !.digits = 0]
        by_unit == next_source_unit(reset_digits, tj)
    IN  IF by_digit.kind # "None" THEN by_digit
        ELSE IF by_unit.kind # "None" THEN by_unit
        ELSE Raised("TypeError")

\* start < end of two named tuples: lexicographic, in the order of the fields.
TupleLess(a, b) ==
    \/ a.number < b.number
    \/ a.number = b.number /\ a.digits < b.digits
    \/ a.number = b.number /\ a.digits = b.digits /\ a.year < b.year
    \/ /\ a.number = b.number /\ a.digits = b.digits /\ a.year = b.year
       /\ a.tr_code < b.tr_code
    \/ /\ a.number = b.number /\ a.digits = b.digits /\ a.year = b.year
       /\ a.tr_code = b.tr_code /\ a.source_unit < b.source_unit

\* any(x < y for x, y in zip(start, end))
AnyLess(a, b) ==
    \/ a.number < b.number \/ a.digits < b.digits \/ a.year < b.year
    \/ a.tr_code < b.tr_code \/ a.source_unit < b.source_unit

next_in_range(range_, tj) ==
    IF ~AnyLess(range_.start, range_.end) THEN ReturnedNone
    ELSE advance(range_.start, tj)

\* The candidates of sequential numbers sequence_start..sequence_end of a
\* court, as CNJNumberCombinations yields them: for each sequential number
\* in ascending order, every source unit of the court's list in its order.
Enumerate(sequence_start, sequence_end, tj, year, segment) ==
    LET units == Len(tj.source_units)
        total == (sequence_end - sequence_start + 1) * units
    IN  [k \in 1..total |->
           CNJProcessNumber(sequence_start + ((k - 1) \div units), year, segment,
                            tj.code, tj.source_units[((k - 1) % units) + 1])]

\* ------------------------------------------------ classify, called alone

\* What a call of one function on its own leaves as it is.
engine_vars == <<cache, sink, query, filtered, court, run, pc, force_fetch,
                 words, batch_size, todo, batch_no, semaphore, probe,
                 hit_captcha, sink_start, prev, faults, resaved, restored,
                 cache_exists>>

\* No call of the engine or of the cache API is made.
InitAlone ==
    /\ InitShared
    /\ batch_size = BatchSize
    /\ court = [s \in Seqs |-> NoProcess]

\* Longest JSON array handed to classify.
MaxItems == 2

\* The JSON objects a body may be, and those an array may hold.
Objects ==
    {Object(status, mensagem, urlExterna, tipoProcesso) :
        status \in {Absent, "412", "500"},
        mensagem \in {Absent, RecaptchaText, "'Erro interno.'"},
        urlExterna \in {Absent, "'https://www3.tjrj.jus.br/ejud/'"},
        tipoProcesso \in {Absent, "1", "2", "3"}}
Elements ==
    {Text(s) : s \in {NotFoundText, InvalidText, "Erro interno."}}
    \cup {o \in Objects : o.status = Absent /\ o.mensagem = Absent}
    \cup {Object("412", RecaptchaText, Absent, Absent)}

\* The decoded bodies: any object, any array of up to MaxItems elements.
Bodies ==
    {ObjectBody(o) : o \in Objects}
    \cup UNION {{ArrayBody(items) : items \in [1..n -> Elements]} : n \in 0..MaxItems}

InitClassify ==
    /\ InitAlone
    /\ call \in {[op |-> "classify", response |-> body, done |-> FALSE,
                   result |-> Fail("NONE")] : body \in Bodies}

\* classify(response, cnj_number, tj)
ClassifyCall ==
    /\ call.op = "classify"
    /\ ~call.done
    /\ call' = [call EXCEPT !.done = TRUE,
                            !.result = classify(Decode(call.response))]
    /\ UNCHANGED engine_vars

NextClassify == ClassifyCall

SpecClassify == InitClassify /\ [][NextClassify]_vars

\* --------------------------------- the functions of process.py, called alone

\* The numbers advance is called on: sequential numbers at both ends of
\* their range, check digits at both ends of theirs, every source unit of
\* TJRJ, TJRJ's court code and the one the tests use.
AdvanceNumbers ==
    {ProcessNumber(number, digits, RunYear, tr_code, TJRJ.source_units[i]) :
        number \in {0, 999998, 999999}, digits \in {0, 1, 98, 99},
        tr_code \in {TRCode, 2}, i \in 1..Len(TJRJ.source_units)}

\* The valid numbers that are formatted and parsed back: every field at
\* both ends of its range and in between.
CodecNumbers ==
    {ProcessNumber(number, digits, year, tr_code, source_unit) :
        number \in {0, 1234, 999999}, digits \in {0, 20, 99},
        year \in {0, RunYear, 9999}, tr_code \in {0, TRCode, 99},
        source_unit \in {0, 45, 9999}}

\* The numbers whose check digits are computed: the first sequential numbers
\* and the largest, every other field at both ends of its range and in
\* between.
MaxCheckSeq == 15
CheckNumbers ==
    {CNJProcessNumber(seq, year, JEDFT, tr_code, source_unit) :
        seq \in (0..MaxCheckSeq) \cup {9999999},
        year \in {0, RunYear, 9999}, tr_code \in {0, TRCode, 99},
        source_unit \in {0, 45, 9999}}

\* The string of test_to_number_with_valid_input, 0000000-11.2222.8.44.5555.
ValidId ==
    <<"0", "0", "0", "0", "0", "0", "0", "-", "1", "1", ".", "2", "2", "2", "2",
      ".", "8", ".", "4", "4", ".", "5", "5", "5", "5">>

\* The strings to_number is given: the valid one with any one character
\* replaced (by a digit, a letter, a dot or a dash), with any one character
\* left out, and with a digit put in anywhere.
ParseStrings ==
    {[ValidId EXCEPT ![i] = c] :
        i \in 1..Len(ValidId), c \in {"0", "8", "x", ".", "-"}}
    \cup {SubSeq(ValidId, 1, i - 1) \o SubSeq(ValidId, i + 1, Len(ValidId)) :
            i \in 1..Len(ValidId)}
    \cup {SubSeq(ValidId, 1, i) \o <<"0">> \o SubSeq(ValidId, i + 1, Len(ValidId)) :
            i \in 0..Len(ValidId)}

\* The ranges of sequential numbers that are enumerated.
\* The largest sequential number among the known ids of a make_intervals
\* call.
MaxKnown == 5

\* The lists of known ids make_intervals is called with: the numbers that
\* restore(cache_path) gives, none included.
KnownIds == {{Guess(s, 1) : s \in S} : S \in SUBSET (1..MaxKnown)}

\* sorted(known_ids): ascending, the sequential number compared first.
sorted(known_ids) ==
    LET numbers == SortedList({id_.sequential_number : id_ \in known_ids})
    IN  [i \in 1..Len(numbers) |->
           CHOOSE id_ \in known_ids : id_.sequential_number = numbers[i]]

\* What make_intervals gives: its list, or the exception it raises.
Intervals(intervals, error) == [intervals |-> intervals, error |-> error]

\* make_intervals(known_ids): `start, *tail = known_ids` raises ValueError
\* for an empty list; the loop closes an interval at each gap; after it
\* the interval in progress is appended if known_ids[-1] != end.
make_intervals(known_ids) ==
    LET ids == sorted(known_ids)
        loop[i \in 1..Len(ids)] ==
            IF i = 1
            THEN [intervals |-> <<>>, start |-> ids[1], end |-> ids[1]]
            ELSE LET before == loop[i - 1]
                     id_ == ids[i]
                     gap == id_.sequential_number
                               > before.end.sequential_number + 1
                 IN  [intervals |-> IF gap
                                    THEN Append(before.intervals,
                                                <<before.start, before.end>>)
                                    ELSE before.intervals,
                      start |-> IF gap THEN id_ ELSE before.start,
                      end |-> id_]
    IN  IF ids = <<>>
        THEN Intervals(<<>>, "ValueError")
        ELSE LET after == loop[Len(ids)]
                 last == ids[Len(ids)]
                 intervals == IF last # after.end
                              THEN Append(after.intervals, <<after.start, last>>)
                              ELSE after.intervals
             IN  Intervals([i \in 1..Len(intervals) |->
                              <<intervals[i][1].sequential_number,
                                intervals[i][2].sequential_number>>], "None")

SequenceRanges == {r \in Seqs \X Seqs : r[1] <= r[2]}

InitProcess ==
    /\ InitAlone
    /\ call \in
          {[op |-> "advance", number |-> n, done |-> FALSE,
            result |-> ReturnedNone] : n \in AdvanceNumbers}
          \cup {[op |-> "make_cnj_code", number |-> n, done |-> FALSE,
                 code |-> <<>>, result |-> ReturnedNone] : n \in CodecNumbers}
          \cup {[op |-> "enumerate", sequence_start |-> r[1],
                 sequence_end |-> r[2], done |-> FALSE, result |-> <<>>] :
                    r \in SequenceRanges}
          \cup {[op |-> "check_digits", number |-> n, done |-> FALSE,
                 check_digits |-> 0] : n \in CheckNumbers}
          \cup {[op |-> "parse", process_id |-> s, done |-> FALSE,
                 result |-> ReturnedNone] : s \in ParseStrings}
          \cup {[op |-> "make_intervals", known_ids |-> ids, done |-> FALSE,
                 returned |-> Intervals(<<>>, "None")] : ids \in KnownIds}

\* advance(number, tj=TJRJ)
AdvanceCall ==
    /\ call.op = "advance" /\ ~call.done
    /\ call' = [call EXCEPT !.done = TRUE, !.result = advance(call.number, TJRJ)]
    /\ UNCHANGED engine_vars

\* make_cnj_code(number)
MakeCnjCodeCall ==
    /\ call.op = "make_cnj_code"
    /\ call' = [call EXCEPT !.op = "to_number",
                            !.code = make_cnj_code(call.number)]
    /\ UNCHANGED engine_vars

\* to_number(code), on the string make_cnj_code gave
ToNumberCall ==
    /\ call.op = "to_number" /\ ~call.done
    /\ call' = [call EXCEPT !.done = TRUE, !.result = to_number(call.code)]
    /\ UNCHANGED engine_vars

\* list(CNJNumberCombinations(sequence_start, sequence_end, tj=TJRJ, ...))
EnumerateCall ==
    /\ call.op = "enumerate" /\ ~call.done
    /\ call' = [call EXCEPT !.done = TRUE,
                            !.result = Enumerate(call.sequence_start,
                                                 call.sequence_end, TJRJ,
                                                 RunYear, JEDFT)]
    /\ UNCHANGED engine_vars

\* the check digits of a number, as make_cnj_number_str computes them
CheckDigitsCall ==
    /\ call.op = "check_digits" /\ ~call.done
    /\ call' = [call EXCEPT !.done = TRUE,
                            !.check_digits = CheckDigits(call.number)]
    /\ UNCHANGED engine_vars

\* to_number(process_id), on any string
ParseCall ==
    /\ call.op = "parse" /\ ~call.done
    /\ call' = [call EXCEPT !.done = TRUE, !.result = to_number(call.process_id)]
    /\ UNCHANGED engine_vars

\* make_intervals(known_ids)
MakeIntervalsCall ==
    /\ call.op = "make_intervals" /\ ~call.done
    /\ call' = [call EXCEPT !.done = TRUE,
                            !.returned = make_intervals(call.known_ids)]
    /\ UNCHANGED engine_vars

NextProcess ==
    \/ AdvanceCall
    \/ MakeCnjCodeCall
    \/ ToNumberCall
    \/ EnumerateCall
    \/ CheckDigitsCall
    \/ ParseCall
    \/ MakeIntervalsCall

SpecProcess == InitProcess /\ [][NextProcess]_vars

\* ------------------------------------------------- all_from, yield by yield

\* The numbers the ranges go from and to: two sequential numbers, check
\* digits at both ends, source units at both ends of TJRJ's list; and the
\* numbers of the ranges of test_all_from_with_valid_input.
RangeNumbers ==
    {ProcessNumber(number, digits, RunYear, TRCode, source_unit) :
        number \in {1, 2}, digits \in {0, 99},
        source_unit \in {0, 1, 211, 212, 9000}}
TestNumbers ==
    {ProcessNumber(1, digits, 3, 4, 5) : digits \in {0, 1, 5, 6}}
    \cup {ProcessNumber(1, 0, 3, 4, 6)}

\* all_from's argument: one number, or a range (of any two numbers).
Ranges ==
    {[single |-> TRUE, start |-> n, end |-> n] : n \in RangeNumbers}
    \cup {[single |-> FALSE, start |-> r[1], end |-> r[2]] :
             r \in (RangeNumbers \X RangeNumbers) \cup (TestNumbers \X TestNumbers)}

InitAllFrom ==
    /\ InitAlone
    /\ call \in {[op |-> "all_from", range_ |-> r, state |-> "new",
                   first |-> NoNumber, last |-> NoNumber, yielded |-> {},
                   repeated |-> FALSE] : r \in Ranges}

\* The generator yields a number.
Yield(number) ==
    [call EXCEPT !.state = "yielded",
                 !.first = IF call.yielded = {} THEN number ELSE call.first,
                 !.last = number,
                 !.yielded = call.yielded \cup {number},
                 !.repeated = call.repeated \/ number \in call.yielded]

\* The first next() of the generator: up to its first yield.
AllFromFirst ==
    /\ call.op = "all_from" /\ call.state = "new"
    /\ call' = IF call.range_.single THEN Yield(call.range_.start)
               ELSE IF ~TupleLess(call.range_.start, call.range_.end)
               THEN [call EXCEPT !.state = "AssertionError"]
               ELSE Yield(call.range_.start)
    /\ UNCHANGED engine_vars

\* A later next(): the generator returns, raises or yields the next number.
AllFromNext ==
    /\ call.op = "all_from" /\ call.state = "yielded"
    /\ call' = IF call.range_.single THEN [call EXCEPT !.state = "returned"]
               ELSE LET start_ == next_in_range(IdRange(call.last, call.range_.end),
                                                TJRJ)
                    IN  CASE start_.kind = "None" -> [call EXCEPT !.state = "returned"]
                          [] start_.kind = "number" -> Yield(start_.number)
                          [] OTHER -> [call EXCEPT !.state = start_.kind]
    /\ UNCHANGED engine_vars

NextAllFrom ==
    \/ AllFromFirst
    \/ AllFromNext

SpecAllFrom == InitAllFrom /\ [][NextAllFrom]_vars

\* The caller takes numbers from the generator until it is exhausted.
SpecAllFromFair == SpecAllFrom /\ WF_vars(NextAllFrom)

\* --------------------------------------- fetch_process, request by request

\* A JSON object of the court with the keys fetch_process and save_to_cache
\* read besides those classify looks at: numProcesso, and codProc
\* (REAL_ID_FIELD).
Record(status, mensagem, tipoProcesso, numProcesso, codProc) ==
    [kind |-> "dict", text |-> "", status |-> status, mensagem |-> mensagem,
     urlExterna |-> Absent, tipoProcesso |-> tipoProcesso,
     numProcesso |-> numProcesso, codProc |-> codProc]

\* TJRequestParams(tipoProcesso=..., codigoProcesso=...), posted to an
\* endpoint.
TJRequestParams(endpoint, tipoProcesso, codigoProcesso) ==
    [endpoint |-> endpoint, tipoProcesso |-> tipoProcesso,
     codigoProcesso |-> codigoProcesso]

\* The main endpoint is asked for the number itself, as for a court that
\* has no CNJ endpoint.
request_args_of_cnj_number(fetch_result, cnj_number) ==
    TJRequestParams("main_endpoint", "'1'", make_cnj_number_str(cnj_number))

\* request_args for the main endpoint after the CNJ endpoint's record:
\* str(fetch_result.get("tipoProcesso")), str(fetch_result.get("numProcesso")).
request_args(fetch_result, cnj_number) ==
    TJRequestParams("main_endpoint", Get(fetch_result.json.tipoProcesso, "None"),
                    Get(fetch_result.json.numProcesso, "None"))

\* fetch_process(session, cnj_number, tj) for the court "rj", up to its
\* first await: the request to the CNJ endpoint is posted. The court's
\* answers to come are any of: the two messages, the captcha error, a
\* record with urlExterna, one of the 2nd instance, an error object, and a
\* process record with or without tipoProcesso, numProcesso and codProc.
InitFetch ==
    LET codes == {Absent, "'2021.001.150000-1'"}
        answers ==
            {ArrayBody(<<Text(NotFoundText)>>), ArrayBody(<<Text(InvalidText)>>),
             ObjectBody(Object("412", RecaptchaText, Absent, Absent)),
             ObjectBody(Object(Absent, Absent, "'https://www3.tjrj.jus.br/ejud/'",
                               Absent)),
             ObjectBody(Record(Absent, Absent, "2", "'2021.002.19959'", Absent)),
             ObjectBody(Record("500", "'Erro interno.'", Absent, Absent, Absent))}
            \cup {ObjectBody(Record(Absent, Absent, tipoProcesso, numProcesso,
                                    codProc)) :
                     tipoProcesso \in {Absent, "1"}, numProcesso \in codes,
                     codProc \in codes}
    IN  /\ InitAlone
        /\ call \in
              {[op |-> "fetch_process", at |-> "cnj_endpoint",
                cnj_number |-> Guess(1, 1),
                cnj_response |-> a, main_response |-> b,
                requests |-> <<TJRequestParams("cnj_endpoint", "'1'",
                                               make_cnj_number_str(Guess(1, 1)))>>,
                result |-> Fail("NONE")] : a \in answers, b \in answers}

\* The CNJ endpoint answers: the response is classified; a failure (or the
\* exception classify raises) is the result, a process record gives the
\* arguments of the request that is posted to the main endpoint.
CnjAnswer ==
    /\ call.op = "fetch_process" /\ call.at = "cnj_endpoint"
    /\ LET fetch_result == classify(Decode(call.cnj_response))
       IN  call' =
             IF fetch_result.kind # PROCESS
             THEN [call EXCEPT !.at = "returned", !.result = fetch_result]
             ELSE [call EXCEPT
                     !.at = "main_endpoint",
                     !.requests = Append(@, request_args(fetch_result,
                                                         call.cnj_number))]
    /\ UNCHANGED engine_vars

\* The main endpoint answers: its classified response is the result.
MainAnswer ==
    /\ call.op = "fetch_process" /\ call.at = "main_endpoint"
    /\ call' = [call EXCEPT !.at = "returned",
                            !.result = classify(Decode(call.main_response))]
    /\ UNCHANGED engine_vars

KeyError == "KeyError"

\* get_process_id(process) of a JSON object of the court:
\* str(process["codProc"]), a KeyError for an object without the key.
get_process_id_of_record(item) ==
    IF item.codProc = Absent THEN KeyError ELSE item.codProc

\* try_combinations passes what fetch_process returned to
\* classify_and_cache: a not-found or invalid answer is saved under the
\* candidate's number, a captcha or unsupported one is not saved, and a
\* process record is saved under get_process_id, which may raise.
ClassifyAndCache ==
    /\ call.op = "fetch_process" /\ call.at = "returned"
    /\ call.result.kind \in {INVALID, NOT_FOUND, CAPTCHA, UNSUPPORTED, PROCESS}
    /\ call' =
          [call EXCEPT !.at =
             CASE call.result.kind \in {INVALID, NOT_FOUND} -> "cached"
               [] call.result.kind \in {CAPTCHA, UNSUPPORTED} -> "not_cached"
               [] OTHER -> IF get_process_id_of_record(call.result.json) = KeyError
                           THEN "raised" ELSE "cached"]
    /\ UNCHANGED engine_vars

NextFetch ==
    \/ CnjAnswer
    \/ MainAnswer
    \/ ClassifyAndCache

SpecFetch == InitFetch /\ [][NextFetch]_vars

\* ------------------------------------------------------------------ claims

NumbersOf(numbers) == {n.sequential_number : n \in numbers}
Requested == SeqRange(query.sequential_numbers)

\* The rows of the cache with sequential number k and the year asked for.
RowsOf(k) ==
    {i \in 1..Len(cache) :
        /\ to_cnj_number(cache[i].id).sequential_number = k
        /\ to_cnj_number(cache[i].id).year = query.year}

\* C1: a save_to_cache for an id that has a row changes nothing: every row
\* stays as its first save wrote it, at its place, and no row is removed.
C1_WriteOnce ==
    [][\A i \in 1..Len(cache) : Len(cache') >= i /\ cache'[i] = cache[i]]_vars

\* A save met a row with its id and other content, and the row is there.
C1_Witness == resaved /\ cache # <<>>

\* C2: filter_cached puts every requested sequential number in exactly one
\* of not_cached, cached and invalid: pairwise disjoint (by sequential
\* number), one entry per number, and together the requested numbers.
C2_Partition ==
    query.called =>
        LET n == filtered.not_cached
            c == NumbersOf(filtered.cached)
            v == NumbersOf(filtered.invalid)
        IN  /\ n \cap c = {} /\ n \cap v = {} /\ c \cap v = {}
            /\ n \cup c \cup v = Requested
            /\ Cardinality(filtered.cached) = Cardinality(c)
            /\ Cardinality(filtered.invalid) = Cardinality(v)

\* A call that found a number of each class.
C2_Witness ==
    /\ query.called
    /\ filtered.not_cached # {} /\ filtered.cached # {} /\ filtered.invalid # {}

\* C10: a requested number is Cached whenever one of its rows of the year is
\* CACHED, whatever INVALID rows it has and in whatever order they were
\* inserted; Invalid when it has rows and none is CACHED; NotCached when it
\* has no row.
C10_CachedWins ==
    query.called =>
        \A k \in Requested :
            /\ (\E i \in RowsOf(k) : cache[i].cache_state = CACHED)
                  => k \in NumbersOf(filtered.cached)
            /\ (RowsOf(k) # {} /\ \A i \in RowsOf(k) : cache[i].cache_state # CACHED)
                  => k \in NumbersOf(filtered.invalid)
            /\ RowsOf(k) = {} => k \in filtered.not_cached

\* The sequential numbers whose process the court holds and the caller's
\* filter accepts, and the records the court holds for them.
Wanted == {s \in Seqs : court[s] # NoProcess /\ filter_function(CourtJSON(s), words)}
WantedJSON == {CourtJSON(s) : s \in Wanted}
SinkRecords == {sink[i] : i \in 1..Len(sink)}

\* The first call is over, without error.
FirstRunDone == run = 1 /\ pc = "done"

\* This call follows, without force_fetch and with the same filter, a call
\* without force_fetch that ended without error and with every probe at a
\* process (accepted or filtered out) or at NotFound/Invalid.
RerunOfResolved ==
    /\ prev.valid /\ prev.ok /\ ~prev.force_fetch /\ prev.resolved
    /\ ~force_fetch /\ words = prev.words

\* C3: the identical call after a call whose probes all ended with a process
\* or NotFound/Invalid issues no HTTP request (nothing is left to probe and
\* no probe is started) and emits the set of records that call emitted.
C3_RerunFromCache ==
    RerunOfResolved =>
        /\ pc = "done"
        /\ todo = <<>>
        /\ \A s \in Seqs : probe[s] = IdleProbe
        /\ Emitted = prev.emitted

\* A rerun over a cache with CACHED and INVALID rows, which emitted records.
C3_Witness ==
    /\ RerunOfResolved
    /\ Emitted # {}
    /\ \E i \in 1..Len(cache) : cache[i].cache_state = INVALID

EmittedFor(s) ==
    \E r \in Emitted : to_cnj_number(get_process_id(r)).sequential_number = s

\* The dispositions sequential number s has when the call is over.
Dispositions(s) ==
    LET probed == s \in SeqRange(todo)
        ended == probed /\ probe[s].st = "done"
        kind == probe[s].fetch_result.kind
        known == ~probed /\ ~force_fetch
    IN  {d \in {"Accepted", "FilteredOut", "InvalidCached", "Unresolved"} :
           \/ d = "Accepted" /\ EmittedFor(s)
           \/ /\ d = "FilteredOut" /\ ~EmittedFor(s)
              /\ \/ ended /\ kind = FILTERED
                 \/ known /\ s \in NumbersOf(filtered.cached)
           \/ /\ d = "InvalidCached"
              /\ \/ ended /\ kind \in {NOT_FOUND, INVALID}
                 \/ known /\ s \in NumbersOf(filtered.invalid)
           \/ d = "Unresolved" /\ ended /\ kind = CAPTCHA}

\* C5 (its words on dispositions, for a call that ended without error): when
\* the call is over every requested sequential number has exactly one
\* disposition among Accepted, FilteredOut, InvalidCached and Unresolved.
C5_OneDisposition ==
    pc = "done" => \A s \in Seqs : Cardinality(Dispositions(s)) = 1

\* C6: an UnknownTJResponse in one probe abandons that probe only: the call
\* never fails and no other probe is stopped before its end.
C6_RunSurvives ==
    /\ pc # "failed"
    /\ \A s \in Seqs : probe[s].st # "cancelled"

\* C7: a probe that got a captcha error is over, with the captcha as its
\* result: no request for a further source unit is in flight or answered.
C7_CaptchaStops ==
    \A s \in hit_captcha :
        /\ probe[s].st = "done"
        /\ probe[s].fetch_result.kind = CAPTCHA

\* C8: a sequential number whose probe ended at a captcha error is
\* NotCached for the next call without force_fetch, and so probed again.
C8_CaptchaProbedAgain ==
    (prev.valid /\ ~force_fetch) =>
        \A s \in prev.unresolved :
            s \in filtered.not_cached /\ s \in SeqRange(todo)

\* C9: the step of a probe that classifies its candidate as captcha or as
\* unsupported leaves every row of the cache as it is and adds none.
C9_NoCacheOnCaptchaOrUnsupported ==
    [][\A s \in Seqs :
          (/\ probe[s].st = "fetching"
           /\ probe'[s] # probe[s]
           /\ probe'[s].st # "cancelled"
           /\ probe'[s].fetch_result.kind \in {CAPTCHA, UNSUPPORTED})
             => cache' = cache]_vars

\* A probe ended at a captcha or unsupported candidate, which has no row in
\* a cache that has rows.
C9_Witness ==
    \E s \in Seqs :
        /\ probe[s].st = "done"
        /\ probe[s].fetch_result.kind \in {CAPTCHA, UNSUPPORTED}
        /\ make_cnj_number_str(Guess(s, probe[s].idx)) \notin IdsIn(cache)
        /\ cache # <<>>

\* The candidate of sequential number s whose response its probe awaits.
Candidate(s) == Guess(s, probe[s].idx)

\* This step is a turn of the loop of the probe of s: its candidate's
\* response was classified and cached.
Turn(s) ==
    /\ probe[s].st = "fetching"
    /\ probe'[s] # probe[s]
    /\ probe'[s].st \in {"fetching", "done"}

\* C11: a probe whose result is FILTERED left the court's record in the
\* cache as CACHED, the filter rejects that record and the record is not
\* among those this call wrote to the sink; a probe whose result is a
\* process has a record the filter accepts.
C11_FilteredIsCached ==
    \A s \in Seqs :
        /\ probe[s].fetch_result.kind = FILTERED =>
              /\ court[s] # NoProcess
              /\ ~filter_function(CourtJSON(s), words)
              /\ \E i \in 1..Len(cache) : cache[i] = DBProcess(CourtJSON(s), CACHED)
              /\ CourtJSON(s) \notin Emitted
        /\ probe[s].fetch_result.kind = PROCESS =>
              filter_function(probe[s].fetch_result.json, words)

\* A call is over in which a probe ended FILTERED and another wrote a record.
C11_Witness ==
    /\ pc = "done"
    /\ \E s \in Seqs : probe[s].st = "done" /\ probe[s].fetch_result.kind = FILTERED
    /\ Emitted # {}

\* C12: the turn that classifies a candidate NotFound or Invalid leaves a
\* row with that candidate's own number and state INVALID in the cache, and
\* while a source unit is left the probe requests the next candidate.
C12_InvalidSavedAndGoesOn ==
    [][\A s \in Seqs :
          (Turn(s) /\ probe'[s].fetch_result.kind \in {NOT_FOUND, INVALID}) =>
             /\ \E i \in 1..Len(cache') :
                   /\ cache'[i].id = make_cnj_number_str(Candidate(s))
                   /\ cache'[i].cache_state = INVALID
             /\ probe[s].idx < NumUnits =>
                   /\ probe'[s].st = "fetching"
                   /\ probe'[s].idx = probe[s].idx + 1]_vars

\* A probe awaits its second candidate after a NotFound/Invalid first one,
\* whose row is in the cache.
C12_Witness ==
    \E s \in Seqs :
        /\ probe[s].st = "fetching" /\ probe[s].idx = 2
        /\ probe[s].fetch_result.kind \in {NOT_FOUND, INVALID}
        /\ \E i \in 1..Len(cache) :
              /\ cache[i].id = make_cnj_number_str(Guess(s, 1))
              /\ cache[i].cache_state = INVALID

\* C13: within a call a probe requests its candidates one after another,
\* the next one in the turn that classified the one before, and after a
\* candidate classified as a process (accepted or filtered out) it requests
\* no other.
C13_OneCandidateAtATime ==
    [][\A s \in Seqs :
          run' = run =>
             /\ probe'[s].idx # probe[s].idx =>
                   /\ probe'[s].idx = probe[s].idx + 1
                   /\ probe'[s].st = "fetching"
                   /\ probe[s].idx >= 1 =>
                         /\ Turn(s)
                         /\ probe'[s].fetch_result.kind
                               \in {NOT_FOUND, INVALID, CAPTCHA, UNSUPPORTED}
             /\ probe[s].fetch_result.kind \in {PROCESS, FILTERED} =>
                   probe'[s] = probe[s] /\ probe[s].st = "done"]_vars

\* A probe ended at a process of the first source unit, with units left,
\* while another probe went on to its second candidate.
C13_Witness ==
    /\ \E s \in Seqs :
          /\ probe[s].st = "done" /\ probe[s].idx = 1
          /\ probe[s].fetch_result.kind \in {PROCESS, FILTERED}
    /\ \E s \in Seqs : probe[s].idx = 2

\* The probes that hold a permit of the semaphore: they acquired it and have
\* not released it.
Holders == {s \in Seqs : probe[s].st \in {"fetching", "raised"}}

\* C14: the probes that hold the semaphore are never more than batch_size;
\* while the call runs they and the free permits are batch_size together.
C14_SemaphoreBound ==
    /\ Cardinality(Holders) <= batch_size
    /\ pc = "running" => Cardinality(Holders) + semaphore = batch_size

\* Every permit is held and a probe of the batch waits for one.
C14_Witness ==
    /\ pc = "running"
    /\ Cardinality(Holders) = batch_size
    /\ \E s \in Seqs : probe[s].st = "pending"

\* The batch of the i-th number of the list.
BatchOf(i) == (i - 1) \div ChunkSize + 1

\* C15: when a probe of a batch has started, every probe of the batches
\* before it is over and the records those found are in the sink.
C15_BatchesInSequence ==
    \A i, j \in 1..Len(todo) :
        (BatchOf(i) < BatchOf(j) /\ probe[todo[j]].st # "idle") =>
            /\ probe[todo[i]].st = "done"
            /\ probe[todo[i]].fetch_result.kind = PROCESS =>
                  probe[todo[i]].fetch_result.json \in Emitted

\* A probe of the second batch awaits a response; the first batch found a
\* record, which is in the sink.
C15_Witness ==
    /\ batch_no = 2
    /\ \E j \in 1..Len(todo) : BatchOf(j) = 2 /\ probe[todo[j]].st = "fetching"
    /\ \E i \in 1..Len(todo) :
          BatchOf(i) = 1 /\ probe[todo[i]].fetch_result.kind = PROCESS

\* C17: in a call without force_fetch the numbers probed are those
\* filter_cached classified NotCached; a number it classified Cached or
\* Invalid gets no request, and one it classified Invalid has no record
\* among those the call writes.
C17_OnlyNotCachedProbed ==
    (run >= 1 /\ ~force_fetch) =>
        /\ SeqRange(todo) = filtered.not_cached
        /\ \A s \in Seqs \ filtered.not_cached : probe[s] = IdleProbe
        /\ \A s \in NumbersOf(filtered.invalid) : ~EmittedFor(s)

\* A call over a cache with a number of each class is over, and wrote.
C17_Witness ==
    /\ run >= 2 /\ ~force_fetch /\ pc = "done"
    /\ filtered.cached # {} /\ filtered.invalid # {} /\ filtered.not_cached # {}
    /\ Emitted # {}

\* C18: whatever calls were made, the sink holds no record twice and only
\* records the court holds.
C18_NoDuplicates ==
    /\ Len(sink) = Cardinality(SinkRecords)
    /\ SinkRecords \subseteq {CourtJSON(s) : s \in {x \in Seqs : court[x] # NoProcess}}

\* C19: when a call without force_fetch is over, every process that the
\* call before fetched and filtered out and that this call's filter accepts
\* is among the records this call wrote, and its number got no request.
C19_FilterReapplied ==
    (prev.valid /\ ~force_fetch /\ pc = "done") =>
        \A s \in prev.filtered_out :
            filter_function(CourtJSON(s), words) =>
                CourtJSON(s) \in Emitted /\ probe[s] = IdleProbe

\* The probes inside classify_and_cache, where save_to_cache is executed.
Saving == {s \in Seqs : probe[s].st = "saving"}

\* C16: at most one probe is inside classify_and_cache: no save_to_cache
\* starts while another is in progress.
C16_OneWriter == Cardinality(Saving) <= 1

\* A probe saves to a cache that has rows while another probe of the batch
\* has a request in flight.
C16_Witness ==
    /\ cache # <<>>
    /\ \E s, o \in Seqs :
          /\ probe[s].st = "saving"
          /\ probe[s].fetch_result.kind \in {NOT_FOUND, INVALID, PROCESS}
          /\ probe[o].st = "fetching"

\* The rows restore_json_for_ids was asked for: their id is one of the
\* given numbers and the predicate holds for them.
AskedRows ==
    {i \in 1..Len(cache) :
        /\ to_cnj_number(cache[i].id) \in restored.ids
        /\ filter_function(cache[i].json, restored.words)}

\* C20: restore_json_for_ids returns the stored JSON of exactly the rows
\* whose id is one of the given numbers and for which the predicate holds,
\* once each, and the cache is as it was before the call.
C20_RestoreExactly ==
    restored.called =>
        /\ SeqRange(restored.result) = {cache[i].json : i \in AskedRows}
        /\ Len(restored.result) = Cardinality(AskedRows)
        /\ cache = restored.cache

\* A call that returned a record and left out a row whose id is in the list
\* and for which the predicate does not hold.
C20_Witness ==
    /\ restored.called
    /\ restored.result # <<>>
    /\ \E i \in 1..Len(cache) :
          /\ to_cnj_number(cache[i].id) \in restored.ids
          /\ i \notin AskedRows

\* The body classify was called on, and the object it is or begins with.
Body == call.response
First == Body.items[1]
Classified == call.op = "classify" /\ call.done

\* C21: classify is total: for every decoded body (an array of strings
\* and/or objects, the empty array and a one-element array with an
\* unrecognised message included, or an object) it returns NotFound,
\* Invalid, Captcha, Unsupported or a process record, or raises
\* UnknownTJResponse, and no other error.
C21_ClassifyTotal ==
    Classified =>
        call.result.kind \in {NOT_FOUND, INVALID, CAPTCHA, UNSUPPORTED, PROCESS,
                              UnknownTJResponse}

\* An object of an unrecognised shape: not the captcha error, no urlExterna,
\* and a tipoProcesso (1 where the key is absent) that is neither 1 nor 2.
Unrecognised(item) ==
    /\ item.kind = "dict"
    /\ ~(item.status = "412" /\ item.mensagem = RecaptchaText)
    /\ item.urlExterna = Absent
    /\ Get(item.tipoProcesso, "1") \notin {"1", "2"}

\* C22: classify raises UnknownTJResponse for every object body of an
\* unrecognised shape; it is never returned as Invalid, NotFound or as a
\* process record.
C22_UnknownObjectRaises ==
    (Classified /\ ~Body.is_list /\ Unrecognised(First))
        => call.result.kind = UnknownTJResponse

C22_Witness ==
    /\ Classified /\ ~Body.is_list /\ Unrecognised(First)
    /\ First.status = "500" /\ First.mensagem # Absent
    /\ call.result.kind = UnknownTJResponse

\* C23: classify returns Unsupported for an array whose element carries
\* urlExterna or has tipoProcesso 2, as it does for an object body; such an
\* element is never returned as a process record.
C23_ArrayElementUnsupported ==
    (/\ Classified /\ Body.is_list /\ Body.items # <<>>
     /\ First.kind = "dict"
     /\ (First.urlExterna # Absent \/ First.tipoProcesso = "2"))
        => call.result.kind = UNSUPPORTED

\* This step is the end of classify_and_cache in the probe of s, for a
\* candidate whose request ended in a process, NotFound or Invalid.
Classifies(s) ==
    /\ probe[s].st = "saving"
    /\ probe'[s].st # "saving"
    /\ probe[s].fetch_result.kind \in {PROCESS, NOT_FOUND, INVALID}

\* C24: a missing cache file is not an error: a call started without the
\* file, with force_fetch or not, never fails for it (it fails only where a
\* probe raised), the file exists from the first candidate that ends in a
\* process, NotFound or Invalid on, and the cache holds a row with the
\* number of every such candidate from its classification on.
C24_MissingCacheNotFatal ==
    /\ [](pc # "file_not_found")
    /\ [](pc = "failed" => \E s \in Seqs : probe[s].st = "raised")
    /\ [][\A s \in Seqs :
             Classifies(s) =>
                /\ cache_exists'
                /\ make_cnj_number_str(Candidate(s)) \in IdsIn(cache')]_vars
    /\ [][IdsIn(cache) \subseteq IdsIn(cache')]_vars

\* A call without force_fetch that found no cache file is over: the file
\* exists and holds a row of every requested number.
C24_Witness ==
    /\ pc = "done" /\ ~force_fetch
    /\ cache_exists
    /\ \A s \in Seqs :
          \E i \in 1..Len(cache) : to_cnj_number(cache[i].id).sequential_number = s

Enumerated == call.op = "enumerate" /\ call.done

\* C25: enumerating the candidates of sequential numbers start..end of a
\* court yields (end - start + 1) * len(source_units) numbers, pairwise
\* distinct, sequential numbers ascending and for each the source units in
\* ascending code order; the candidates of one sequential number over TJRJ
\* are never the same number twice.
C25_EnumerationDistinct ==
    Enumerated =>
        LET result == call.result
        IN  /\ Len(result) = (call.sequence_end - call.sequence_start + 1)
                                 * Len(TJRJ.source_units)
            /\ \A i, j \in 1..Len(result) :
                  i < j =>
                     /\ result[i] # result[j]
                     /\ result[i].sequential_number <= result[j].sequential_number
                     /\ result[i].sequential_number = result[j].sequential_number
                           => result[i].source_unit <= result[j].source_unit

\* all_from was given a range start < end (its source units are TJRJ's).
ValidRange ==
    /\ call.op = "all_from"
    /\ ~call.range_.single
    /\ TupleLess(call.range_.start, call.range_.end)

\* C26: for every range start < end whose source units belong to TJRJ,
\* all_from terminates normally, after finitely many numbers.
C26_AllFromTerminates == ValidRange => <>(call.state = "returned")

Advanced == call.op = "advance" /\ call.done
FirstUnit(tj) == tj.source_units[1]
LastUnit(tj) == tj.source_units[Len(tj.source_units)]

\* The unit that follows `unit` in the ascending order of the court's codes.
UnitAfter(unit, tj) ==
    CHOOSE u \in {tj.source_units[i] : i \in 1..Len(tj.source_units)} :
        /\ u > unit
        /\ \A i \in 1..Len(tj.source_units) :
              tj.source_units[i] > unit => u <= tj.source_units[i]

\* C27: advance steps through the court's source units in ascending order
\* (once the check digits of a unit are through); at the court's last
\* source unit it returns the number with the first source unit and the
\* sequential number incremented by one; it returns None exactly when the
\* sequential number would exceed 999999.
C27_AdvanceCarries ==
    (Advanced /\ call.number.digits = 99) =>
        LET number == call.number
            result == call.result
        IN  /\ number.source_unit # LastUnit(TJRJ) =>
                  /\ result.kind = "number"
                  /\ result.number.source_unit = UnitAfter(number.source_unit, TJRJ)
                  /\ result.number.number = number.number
            /\ (number.source_unit = LastUnit(TJRJ) /\ number.number < 999999) =>
                  /\ result.kind = "number"
                  /\ result.number.source_unit = FirstUnit(TJRJ)
                  /\ result.number.number = number.number + 1
            /\ result.kind = "None" <=>
                  (number.source_unit = LastUnit(TJRJ) /\ number.number = 999999)

\* C28: for a number whose source unit is at position i of the court's
\* list, advance returns the number with digits + 1 and nothing else
\* changed when digits < 99, and digits 0 with the source unit of position
\* i + 1 (nothing else changed) when digits = 99 and i is not the last.
C28_AdvanceDigitsThenUnit ==
    Advanced =>
        \A i \in 1..Len(TJRJ.source_units) :
            TJRJ.source_units[i] = call.number.source_unit =>
               /\ call.number.digits < 99 =>
                     call.result = Returned([call.number EXCEPT
                                               !.digits = call.number.digits + 1])
               /\ (call.number.digits = 99 /\ i < Len(TJRJ.source_units)) =>
                     call.result = Returned([call.number EXCEPT
                                               !.digits = 0,
                                               !.source_unit = TJRJ.source_units[i + 1]])

\* C29: for a range start < end all_from yields start first and each
\* number once, raises nothing, and the last number it yields is end; for
\* a single number it yields just that number; for start >= end it raises
\* AssertionError without yielding.
C29_AllFromYieldsRange ==
    call.op = "all_from" =>
        LET range_ == call.range_
            valid == range_.single \/ TupleLess(range_.start, range_.end)
        IN  /\ call.state \in {"new", "yielded", "returned", "AssertionError"}
            /\ call.state = "AssertionError" => (~valid /\ call.yielded = {})
            /\ ~valid => call.state \in {"new", "AssertionError"}
            /\ call.yielded # {} => call.first = range_.start
            /\ ~call.repeated
            /\ call.state = "returned" => call.last = range_.end
            /\ (call.state = "returned" /\ range_.single) =>
                  call.yielded = {range_.start}

\* C30: for every valid process number N (sequential number 0..999999,
\* year 0..9999, court code 0..99, source unit 0..9999) parsing the
\* formatted string gives N back: to_number(make_cnj_code(N)) = N.
C30_RoundTrip ==
    (call.op = "to_number" /\ call.done) => call.result = Returned(call.number)

\* make_cnj_code has returned the string call.code for call.number.
Formatted == call.op = "to_number"

\* C31: make_cnj_code renders every number as NNNNNNN-DD.YYYY.8.CC.UUUU,
\* each field zero-padded to its width: the sequential number to exactly 7
\* digits, the check digits to 2, the year to 4, the court code to 2 and
\* the source unit to 4 (25 characters in all).
C31_FixedShape ==
    Formatted =>
        /\ Len(call.code) = 25
        /\ call.code = Pad(call.number.number, 7) \o <<"-">>
                       \o Pad(call.number.digits, 2) \o <<".">>
                       \o Pad(call.number.year, 4) \o <<".", "8", ".">>
                       \o Pad(call.number.tr_code, 2) \o <<".">>
                       \o Pad(call.number.source_unit, 4)

\* The check digits of call.number have been computed.
Checked == call.op = "check_digits" /\ call.done

\* C32: for every process number the check digits 98 - (M*100 mod 97), M
\* the decimal concatenation of sequential number (7 digits), year (4),
\* segment (1), court code (2) and source unit (4), lie in [0, 97).
C32_CheckDigitsBelow97 == Checked => call.check_digits \in 0..96

\* C32, as it holds: the check digits lie in 2..98, the complement to 98 of
\* a remainder modulo 97.
C32_CheckDigitsRange == Checked => call.check_digits \in 2..98

\* Check digits outside [0, 97) have been computed.
C32_Witness == Checked /\ call.check_digits \in {97, 98}

\* to_number has returned or raised for the string call.process_id.
Parsed == call.op = "parse" /\ call.done

\* The fixed pattern NNNNNNN-DD.YYYY.S.CC.UUUU: 7, 2, 4, 1, 2 and 4 digits,
\* one dash and four literal dots between them.
ExactShape(s) ==
    /\ Len(s) = 25
    /\ IsDigits(s, 1, 7) /\ s[8] = "-"
    /\ IsDigits(s, 9, 10) /\ s[11] = "."
    /\ IsDigits(s, 12, 15) /\ s[16] = "."
    /\ IsDigits(s, 17, 17) /\ s[18] = "."
    /\ IsDigits(s, 19, 20) /\ s[21] = "."
    /\ IsDigits(s, 22, 25)

\* C33: to_number raises InvalidProcessNumber for every string that does
\* not match the fixed pattern exactly, a wrong digit count or another
\* character in place of a dot included; it returns a number only for a
\* string of that exact shape.
C33_MismatchRaises ==
    Parsed =>
        /\ ~ExactShape(call.process_id)
              => call.result = Raised("InvalidProcessNumber")
        /\ call.result.kind = "number" => ExactShape(call.process_id)

\* The probe of s tried every candidate of s and none was a process.
Exhausted(s) ==
    /\ s \in SeqRange(todo)
    /\ probe[s].st = "done"
    /\ probe[s].idx = NumUnits
    /\ ~Breaks(probe[s].fetch_result)

\* A candidate of s was recorded as INVALID.
RecordedInvalid(s) ==
    \E i \in 1..Len(cache) :
        /\ cache[i].cache_state = INVALID
        /\ to_cnj_number(cache[i].id).sequential_number = s

\* C34: when every candidate of a sequential number has been tried and
\* none was a process, try_combinations returns the outcome of the last
\* candidate tried (a failure; where it is NotFound or Invalid the last
\* candidate is the one recorded), and if a candidate was recorded as
\* INVALID, filter_cached classifies the number Invalid in the next run.
C34_ExhaustedInvalid ==
    \A s \in Seqs :
        Exhausted(s) =>
           /\ probe[s].fetch_result.kind \in {NOT_FOUND, INVALID, CAPTCHA, UNSUPPORTED}
           /\ probe[s].fetch_result.kind \in {NOT_FOUND, INVALID}
                => make_cnj_number_str(Guess(s, NumUnits)) \in IdsIn(cache)
           /\ (pc = "done" /\ RecordedInvalid(s))
                => s \in NumbersOf(filter_cached(sequence, RunYear, cache).invalid)

\* A candidate of s is recorded as CACHED (by an earlier call, fetched
\* again with force_fetch).
RecordedCached(s) ==
    \E i \in 1..Len(cache) :
        /\ cache[i].cache_state = CACHED
        /\ to_cnj_number(cache[i].id).sequential_number = s

\* C34, as it holds: the returned outcome is the last candidate's, and the
\* number is classified Invalid in the next run if a candidate was recorded
\* as INVALID and none is recorded as CACHED.
C34_ExhaustedInvalidUnlessCached ==
    \A s \in Seqs :
        Exhausted(s) =>
           /\ probe[s].fetch_result.kind \in {NOT_FOUND, INVALID, CAPTCHA, UNSUPPORTED}
           /\ probe[s].fetch_result.kind \in {NOT_FOUND, INVALID}
                => make_cnj_number_str(Guess(s, NumUnits)) \in IdsIn(cache)
           /\ (pc = "done" /\ RecordedInvalid(s) /\ ~RecordedCached(s))
                => s \in NumbersOf(filter_cached(sequence, RunYear, cache).invalid)

\* A call is over in which a probe tried every candidate of a number whose
\* process exists, the existing one answered by a captcha error: a
\* candidate is recorded as INVALID and the number is classified Invalid.
C34_Witness ==
    \E s \in Seqs :
        /\ pc = "done" /\ Exhausted(s)
        /\ court[s] # NoProcess
        /\ RecordedInvalid(s) /\ ~RecordedCached(s)
        /\ s \in NumbersOf(filter_cached(sequence, RunYear, cache).invalid)

\* The requests fetch_process has posted to the main endpoint.
MainRequests ==
    {i \in 1..Len(call.requests) : call.requests[i].endpoint = "main_endpoint"}

BatchEnded ==
    /\ batch_no >= 1
    /\ \A s \in SeqRange(chunks(todo, ChunkSize, batch_no)) :
          probe[s].st \in {"done", "raised", "cancelled"}

\* C36: every probe that acquired a permit of the semaphore releases it
\* when it ends, on every exit path, an exception of fetch_process or
\* classify_and_cache inside the probe included: once all probes of a batch
\* have ended the free permits are batch_size again, and a probe that has
\* ended holds none.
C36_PermitReleased ==
    /\ BatchEnded => semaphore = batch_size
    /\ pc = "running" =>
          Cardinality({s \in Seqs : probe[s].st \in {"fetching", "saving"}})
             + semaphore = batch_size


\* The records a call writes for these numbers with a court that answers
\* truthfully: the accepted processes, in the order of the numbers.
SubmittedRecords(numbers) ==
    LET wanted(s) == s \in Wanted
        accepted == SelectSeq(numbers, wanted)
    IN  [i \in 1..Len(accepted) |-> CourtJSON(accepted[i])]

\* The numbers of todo whose batch has been written to the sink.
Written ==
    IF pc = "done" THEN todo
    ELSE SubSeq(todo, 1, Min((batch_no - 1) * ChunkSize, Len(todo)))

\* The rowid of the row with this id in the cache, 0 without one.
RowOf(id) ==
    IF id \in IdsIn(cache)
    THEN CHOOSE i \in 1..Len(cache) : cache[i].id = id
    ELSE 0

\* C37: with a court that answers every request truthfully, the records a
\* call has written to the sink are decided by the request list, the court
\* and the filter alone, whatever the order in which the probes' requests
\* completed: the accepted processes of the batches written so far, batch
\* after batch and within a batch in the order the sequential numbers were
\* submitted.
C37_SinkInSubmissionOrder ==
    (pc \in {"running", "done"} /\ faults = 0) =>
        SubSeq(sink, sink_start + 1, Len(sink)) = SubmittedRecords(Written)

\* A call is over in which the probe of number 2 saved its process before
\* the probe of number 1 did, both of one batch and both written.
C37_Witness ==
    /\ pc = "done"
    /\ faults = 0
    /\ {1, 2} \subseteq Wanted
    /\ RowOf(get_process_id(CourtJSON(1))) > RowOf(get_process_id(CourtJSON(2)))
    /\ RowOf(get_process_id(CourtJSON(2))) > 0
    /\ Len(sink) >= sink_start + 2
    /\ sink[sink_start + 1] = CourtJSON(1)
    /\ sink[sink_start + 2] = CourtJSON(2)


\* classify_and_cache was given a process record that classify returned.
GivenProcess ==
    /\ call.op = "fetch_process"
    /\ call.at \in {"cached", "not_cached", "raised"}
    /\ call.result.kind = PROCESS

\* C38: every response that classify returns as a process record can be
\* cached: classify_and_cache does not raise for it (an object without the
\* process-id field, such as an error object that is not the captcha one,
\* is not returned as a process and then passed to save_to_cache).
C38_SuccessCanBeCached == GivenProcess => call.at = "cached"


\* make_intervals has returned a list for these known ids.
MadeIntervals ==
    call.op = "make_intervals" /\ call.done /\ call.returned.error = "None"

\* The sequential numbers of the known ids of the call.
KnownNumbers == {id_.sequential_number : id_ \in call.known_ids}

\* The returned intervals that contain sequential number n.
IntervalsWith(n) ==
    {i \in 1..Len(call.returned.intervals) :
        call.returned.intervals[i][1] <= n /\ n <= call.returned.intervals[i][2]}

\* C39: for a list of at least one known id make_intervals returns the
\* maximal (start, end) intervals of consecutive sequential numbers among
\* the known ids: it returns a list, every known sequential number lies in
\* exactly one returned interval (the numbers of the last run of
\* consecutive ids included), no returned interval contains a number that
\* is not known, and no interval can be extended by a known number.
C39_MaximalIntervals ==
    (call.op = "make_intervals" /\ call.done /\ call.known_ids # {}) =>
        /\ MadeIntervals
        /\ \A n \in KnownNumbers : Cardinality(IntervalsWith(n)) = 1
        /\ \A n \in 0..(MaxKnown + 1) : IntervalsWith(n) # {} => n \in KnownNumbers
        /\ \A i \in 1..Len(call.returned.intervals) :
              /\ call.returned.intervals[i][1] - 1 \notin KnownNumbers
              /\ call.returned.intervals[i][2] + 1 \notin KnownNumbers
====
